---------------------------- MODULE Spec2Model ----------------------------
(***************************************************************************)
(* Model of genchart.py (RRD4J chart generator): the structured parser     *)
(* parse_rrd4j_file, the heuristic scanner parse_rrd4j_values_only, the    *)
(* resampler process_data and the pipeline of main.                        *)
(*                                                                         *)
(* A double is a record [cls, v]: cls = "fin" with v the value in units of *)
(* 1/10000, cls = "nan", or cls = "inf" with v = 1 or -1 (the sign).       *)
(* A byte buffer is a record [len, at]: len is its length in bytes and at  *)
(* maps the byte offset at which a field starts to that field [k, w, v]    *)
(* (kind, width in bytes, value).  A read of w bytes at offset o succeeds  *)
(* iff o + w <= len, as a Python slice shorter than the struct format      *)
(* makes struct.unpack raise.                                              *)
(***************************************************************************)
EXTENDS Integers, Sequences, FiniteSets, TLC

VARIABLES
    rrd,         \* the bytes of the file at the path -rrd
    period,      \* the period tag
    now,         \* the clock, time.time()
    max_points,  \* the point budget handed to process_data
    pc,          \* the position of the running call
    calls,       \* the functions main has called so far, in order
    data,        \* the sample list: main's variable data, Some(pairs) or None
    frame,       \* the locals of the last call of a parser
    proc         \* the locals of the last call of process_data

vars == <<rrd, period, now, max_points, pc, calls, data, frame, proc>>

---------------------------------------------------------------------------
(* Bounds of the model *)

MaxDs == 2
MaxArcs == 2
MaxRows == 3

---------------------------------------------------------------------------
(* Doubles *)

Fin(x) == [cls |-> "fin", v |-> x]
NaN == [cls |-> "nan", v |-> 0]
PosInf == [cls |-> "inf", v |-> 1]
NegInf == [cls |-> "inf", v |-> -1]

isnan(val) == val.cls = "nan"
isinf(val) == val.cls = "inf"

---------------------------------------------------------------------------
(* The RRD4J file layout, as the file's writer lays it down *)

Fld(k, w, v) == [k |-> k, w |-> w, v |-> v]

SignatureBytes == 40
DsRecordBytes == 128
ArcDefSkipBytes == 48
ArcStateBytes == 16

\* The value stored in slot r (1-based, storage order) of the robin buffer of
\* datasource d in archive a.  mask chooses which slots of the first
\* datasource hold non-finite values.
StoredValue(a, d, r, mask) ==
    IF d = 1 /\ mask = 1 /\ r % 2 = 1 THEN NaN
    ELSE IF d = 1 /\ mask = 2 /\ r % 2 = 0 THEN PosInf
    ELSE IF d = 1 /\ mask = 3 THEN (IF r % 2 = 1 THEN NegInf ELSE NaN)
    ELSE Fin(1000 * a + 100 * d + r)

RobinFields(a, d, shape) ==
    <<Fld("u32", 4, shape.pointer)>> \o
    [r \in 1..shape.rows |-> Fld("f64", 8, StoredValue(a, d, r, shape.mask))]

RECURSIVE Flatten(_)
Flatten(ss) == IF ss = <<>> THEN <<>> ELSE Head(ss) \o Flatten(Tail(ss))

ArchiveFields(a, ds, shape) ==
    <<Fld("pad", ArcDefSkipBytes, 0),
      Fld("u32", 4, shape.steps),
      Fld("u32", 4, shape.rows)>> \o
    [d \in 1..ds |-> Fld("pad", ArcStateBytes, 0)] \o
    Flatten([d \in 1..ds |-> RobinFields(a, d, shape)])

FileFields(step, ds, lu, shapes) ==
    <<Fld("pad", SignatureBytes, 0),
      Fld("u64", 8, step),
      Fld("u32", 4, ds),
      Fld("u32", 4, Len(shapes)),
      Fld("u64", 8, lu)>> \o
    [d \in 1..ds |-> Fld("pad", DsRecordBytes, 0)] \o
    Flatten([a \in 1..Len(shapes) |-> ArchiveFields(a, ds, shapes[a])])

\* Each field from the i-th on at the offset where it starts, the i-th at off.
RECURSIVE PlaceFrom(_, _, _)
PlaceFrom(fields, i, off) ==
    IF i > Len(fields) THEN <<>>
    ELSE (off :> fields[i]) @@ PlaceFrom(fields, i + 1, off + fields[i].w)

Place(fields) == PlaceFrom(fields, 1, 0)

\* The bytes of the fields from the i-th on.
RECURSIVE BytesFrom(_, _)
BytesFrom(fields, i) ==
    IF i > Len(fields) THEN 0 ELSE fields[i].w + BytesFrom(fields, i + 1)

TotalBytes(fields) == BytesFrom(fields, 1)

\* The set of offsets at which a field of the sequence ends.
FieldEnds(fields) ==
    LET at == Place(fields)
    IN  {off + at[off].w : off \in DOMAIN at}

\* The first n bytes of the file made of the fields.
Buffer(fields, n) == [len |-> n, at |-> Place(fields)]

\* A buffer of n bytes: ScanStart bytes of header, then the doubles vals.
RawBuffer(vals, n) ==
    [len |-> n,
     at |-> [off \in {0} \cup {200 + 8 * (j - 1) : j \in 1..Len(vals)} |->
                IF off = 0 THEN Fld("pad", 200, 0)
                ELSE Fld("f64", 8, vals[(off - 200) \div 8 + 1])]]

---------------------------------------------------------------------------
(* struct.unpack on slices of the buffer *)

\* A read that does not start on a field of the kind asked for yields bytes
\* of some other field: an integer and a double no file of the model stores.
CanRead(buf, off, n) == off + n <= buf.len

ReadInt(buf, off, kind) ==
    IF off \in DOMAIN buf.at /\ buf.at[off].k = kind
    THEN buf.at[off].v ELSE 3

ReadDouble(buf, off) ==
    IF off \in DOMAIN buf.at /\ buf.at[off].k = "f64"
    THEN buf.at[off].v ELSE Fin(-7777)

---------------------------------------------------------------------------
(* parse_rrd4j_file *)

None == [ok |-> FALSE, pairs |-> <<>>]
Some(pairs) == [ok |-> TRUE, pairs |-> pairs]

\* Python truth value of an Optional[List]: None and [] are false.
Truthy(res) == res.ok /\ res.pairs # <<>>

HeaderOffset == 40
HeaderBytes == 24
StepMax == 86400
DefaultStep == 60
LastUpdateMin == 1577836800
LastUpdateMax == 2000000000

\* Mutant: a step of 86400 itself is replaced too.
NormStep_Exclusive(step) == IF step < 1 \/ step >= StepMax THEN DefaultStep ELSE step

\* if step < 1 or step > 86400: step = 60
NormStep(step) == IF step < 1 \/ step > StepMax THEN DefaultStep ELSE step

NormLastUpdate(last_update, t) ==
    IF last_update < LastUpdateMin \/ last_update > LastUpdateMax
    THEN t ELSE last_update

\* Mutant: the rotation starts one slot late.
Reorder_OffByOne(values, pointer) ==
    IF pointer > 0 /\ pointer < Len(values)
    THEN SubSeq(values, pointer + 2, Len(values)) \o SubSeq(values, 1, pointer + 1)
    ELSE values

\* Circular buffer reordering: pointer is the next write position.
Reorder(values, pointer) ==
    IF pointer > 0 /\ pointer < Len(values)
    THEN SubSeq(values, pointer + 1, Len(values)) \o SubSeq(values, 1, pointer)
    ELSE values

\* Mutant: the 4-byte pointers of the remaining robin buffers are not
\* stepped over.
SkipRemaining_ValuesOnly(ds_count, arc_rows) ==
    IF ds_count > 1 THEN (ds_count - 1) * (arc_rows * 8) ELSE 0

\* Bytes of the robin buffers of datasources 2..ds_count of one archive,
\* which the parser steps over without reading.
SkipRemaining(ds_count, arc_rows) ==
    IF ds_count > 1 THEN (ds_count - 1) * (4 + arc_rows * 8) ELSE 0

\* One iteration of the archive loop at the given offset:
\* [ok, arc, offset] with offset the cursor after the iteration.  Besides the
\* four keys of the code's dict, arc records in "at" the offset at which
\* the iteration started.
ReadArchive(buf, ds_count, offset) ==
    IF ~CanRead(buf, offset + 48, 8) THEN [ok |-> FALSE]
    ELSE
    LET arc_steps == ReadInt(buf, offset + 48, "u32")
        arc_rows == ReadInt(buf, offset + 52, "u32")
        robin == offset + 56 + ds_count * ArcStateBytes
    IN  IF ~CanRead(buf, robin, 4) THEN [ok |-> FALSE]
        ELSE
        LET pointer == ReadInt(buf, robin, "u32")
            first == robin + 4
            values_size == arc_rows * 8
        IN  IF ~CanRead(buf, first, values_size) THEN [ok |-> FALSE]
            ELSE
            LET values == [r \in 1..arc_rows |->
                              ReadDouble(buf, first + 8 * (r - 1))]
            IN  [ok |-> TRUE,
                 arc |-> [steps |-> arc_steps, rows |-> arc_rows,
                          pointer |-> pointer, at |-> offset,
                          values |-> Reorder(values, pointer)],
                 offset |-> first + values_size +
                            SkipRemaining(ds_count, arc_rows)]

\* The archive loop: [ok, archive_data].
RECURSIVE ReadArchives(_, _, _, _, _)
ReadArchives(buf, ds_count, left, offset, archive_data) ==
    IF left = 0 THEN [ok |-> TRUE, archive_data |-> archive_data]
    ELSE LET one == ReadArchive(buf, ds_count, offset)
         IN  IF ~one.ok THEN [ok |-> FALSE, archive_data |-> archive_data]
             ELSE ReadArchives(buf, ds_count, left - 1, one.offset,
                               Append(archive_data, one.arc))

period_duration(p) ==
    CASE p = "h" -> 3600
      [] p = "D" -> 24 * 3600
      [] p = "W" -> 7 * 24 * 3600
      [] p = "M" -> 30 * 24 * 3600
      [] p = "Y" -> 365 * 24 * 3600
      [] OTHER -> 24 * 3600

Coverage(arc, step) == arc.rows * (step * arc.steps)

\* arc_duration >= required_duration * 0.8
Covers(arc, step, required_duration) ==
    Coverage(arc, step) * 10 >= required_duration * 8

\* Mutant: the loop without its break keeps the last covering archive.
FirstCovering_NoBreak(archive_data, step, required_duration) ==
    LET hits == {i \in 1..Len(archive_data) :
                    Covers(archive_data[i], step, required_duration)}
    IN  IF hits = {} THEN 0
        ELSE CHOOSE i \in hits : \A j \in hits : j <= i

\* The for loop with break: the first covering archive, 0 when there is none.
FirstCovering(archive_data, step, required_duration) ==
    LET hits == {i \in 1..Len(archive_data) :
                    Covers(archive_data[i], step, required_duration)}
    IN  IF hits = {} THEN 0
        ELSE CHOOSE i \in hits : \A j \in hits : i <= j

\* Mutant: on ties the last archive of greatest coverage.
MaxCoverage_LastOnTies(archive_data, step) ==
    LET n == Len(archive_data)
    IN  IF n = 0 THEN 0
        ELSE CHOOSE i \in 1..n :
               /\ \A j \in 1..n :
                     Coverage(archive_data[j], step) <= Coverage(archive_data[i], step)
               /\ \A j \in (i + 1)..n :
                     Coverage(archive_data[j], step) < Coverage(archive_data[i], step)

\* max(archive_data, key=coverage): the first archive of greatest coverage
\* (0 for an empty list, where max raises ValueError).
MaxCoverage(archive_data, step) ==
    LET n == Len(archive_data)
    IN  IF n = 0 THEN 0
        ELSE CHOOSE i \in 1..n :
               /\ \A j \in 1..n :
                     Coverage(archive_data[j], step) <= Coverage(archive_data[i], step)
               /\ \A j \in 1..(i - 1) :
                     Coverage(archive_data[j], step) < Coverage(archive_data[i], step)

SelectArchive(archive_data, step, required_duration) ==
    LET first == FirstCovering(archive_data, step, required_duration)
    IN  IF first # 0 THEN first ELSE MaxCoverage(archive_data, step)

\* Mutant: the newest value is dated one interval before last_update.
RECURSIVE BuildPairs_OffByOne(_, _, _, _)
BuildPairs_OffByOne(values, i, last_update, arc_step) ==
    IF i > Len(values) THEN <<>>
    ELSE (IF ~isnan(values[i]) /\ ~isinf(values[i])
          THEN <<<<last_update - (Len(values) - i + 1) * arc_step, values[i]>>>>
          ELSE <<>>)
         \o BuildPairs_OffByOne(values, i + 1, last_update, arc_step)

\* Mutant: timestamps are numbered over the surviving values only.
RECURSIVE BuildPairs_Renumbered(_, _, _, _)
BuildPairs_Renumbered(values, i, last_update, arc_step) ==
    IF i > Len(values) THEN <<>>
    ELSE LET rest == BuildPairs_Renumbered(values, i + 1, last_update, arc_step)
         IN  (IF ~isnan(values[i]) /\ ~isinf(values[i])
              THEN <<<<last_update - Len(rest) * arc_step, values[i]>>>>
              ELSE <<>>) \o rest

\* The loop over enumerate(values), from 1-based index i on.
RECURSIVE BuildPairs(_, _, _, _)
BuildPairs(values, i, last_update, arc_step) ==
    IF i > Len(values) THEN <<>>
    ELSE (IF ~isnan(values[i]) /\ ~isinf(values[i])
          THEN <<<<last_update - (Len(values) - i) * arc_step, values[i]>>>>
          ELSE <<>>)
         \o BuildPairs(values, i + 1, last_update, arc_step)

\* The locals of one call of parse_rrd4j_file and its return value ret;
\* raised is TRUE when the try block raised and the except clause returned None.
ParseFrame(buf, p, t) ==
    LET raise == [raised |-> TRUE, step |-> 0, last_update |-> 0,
                  ds_count |-> 0, archive_data |-> <<>>, selected |-> 0,
                  ret |-> None]
    IN
    IF ~CanRead(buf, HeaderOffset, HeaderBytes) THEN raise
    ELSE
    LET step == NormStep(ReadInt(buf, 40, "u64"))
        ds_count == ReadInt(buf, 48, "u32")
        arc_count == ReadInt(buf, 52, "u32")
        last_update == NormLastUpdate(ReadInt(buf, 56, "u64"), t)
        arcs == ReadArchives(buf, ds_count, arc_count,
                             HeaderOffset + HeaderBytes + ds_count * DsRecordBytes,
                             <<>>)
    IN  IF ~arcs.ok THEN raise
        ELSE
        LET selected == SelectArchive(arcs.archive_data, step, period_duration(p))
        IN  IF selected = 0 THEN raise
            ELSE
            LET sel == arcs.archive_data[selected]
                pairs == BuildPairs(sel.values, 1, last_update, step * sel.steps)
            IN  [raised |-> FALSE, step |-> step, last_update |-> last_update,
                 ds_count |-> ds_count, archive_data |-> arcs.archive_data,
                 selected |-> selected,
                 ret |-> IF pairs # <<>> THEN Some(pairs) ELSE None]

parse_rrd4j_file(buf, p, t) == ParseFrame(buf, p, t).ret

---------------------------------------------------------------------------
(* parse_rrd4j_values_only *)

ScanStart == 200
MinBlock == 30
ScanSpacing == 60

\* 0.0001 < abs(val) < 10000, on values in units of 1/10000.
is_valid_sensor_value(val) ==
    IF isnan(val) \/ isinf(val) THEN FALSE
    ELSE LET a == IF val.v < 0 THEN -val.v ELSE val.v
         IN  1 < a /\ a < 100000000

\* The locals of parse_rrd4j_values_only as the loop is entered: i is the
\* next offset of range(200, len(data) - 8, 8).
ScanEnter == [i |-> ScanStart, current_block |-> <<>>, blocks |-> <<>>,
              values |-> <<>>, ret |-> None]

\* The loop condition of range(200, len(data) - 8, 8).
ScanMore(buf, loc) == loc.i < buf.len - 8

\* One iteration of the loop.
ScanIteration(buf, loc) ==
    LET val == ReadDouble(buf, loc.i)
    IN  IF is_valid_sensor_value(val)
        THEN [loc EXCEPT !.i = @ + 8, !.current_block = Append(@, val)]
        ELSE [loc EXCEPT !.i = @ + 8, !.current_block = <<>>,
                         !.blocks = IF Len(loc.current_block) >= MinBlock
                                    THEN Append(@, loc.current_block) ELSE @]

\* max(blocks, key=len): the first of the longest blocks.
LongestBlock(blocks) ==
    blocks[CHOOSE i \in 1..Len(blocks) :
             /\ \A j \in 1..Len(blocks) : Len(blocks[j]) <= Len(blocks[i])
             /\ \A j \in 1..(i - 1) : Len(blocks[j]) < Len(blocks[i])]

\* Timestamps at 1 minute intervals ending at the clock.
SyntheticPairs(values, t) ==
    [i \in 1..Len(values) |-> <<t - (Len(values) - i) * ScanSpacing, values[i]>>]

\* The code after the loop: the locals with the return value ret.
ScanReturn(loc, t) ==
    LET blocks == IF Len(loc.current_block) >= MinBlock
                  THEN Append(loc.blocks, loc.current_block) ELSE loc.blocks
    IN  IF blocks = <<>>
        THEN [loc EXCEPT !.blocks = blocks, !.ret = None]
        ELSE [loc EXCEPT !.blocks = blocks,
                         !.values = LongestBlock(blocks),
                         !.ret = Some(SyntheticPairs(LongestBlock(blocks), t))]


---------------------------------------------------------------------------
(* process_data *)

fallback_points(p) ==
    CASE p = "h" -> 60
      [] p = "D" -> 1440
      [] p = "W" -> 2016
      [] p = "M" -> 4320
      [] p = "Y" -> 8760
      [] OTHER -> 1440

\* a < b on doubles (false when either is NaN).
DLess(a, b) ==
    LET key(d) == IF d.cls = "inf" THEN d.v * 1073741824 ELSE d.v
    IN  ~isnan(a) /\ ~isnan(b) /\ key(a) < key(b)

\* data_min and data_max after the tracking loop over pairs, from index i on:
\* a value replaces data_min when it is less (data_max when it is greater),
\* so the loop ends with the least (greatest) of the starting value and the
\* values it passes; a NaN compares false and is never taken.
TrackMin(pairs, i, data_min) ==
    LET seen == {data_min} \cup
                {pairs[k][2] : k \in {j \in i..Len(pairs) : ~isnan(pairs[j][2])}}
    IN  CHOOSE m \in seen : \A z \in seen : ~DLess(z, m)

TrackMax(pairs, i, data_max) ==
    LET seen == {data_max} \cup
                {pairs[k][2] : k \in {j \in i..Len(pairs) : ~isnan(pairs[j][2])}}
    IN  CHOOSE m \in seen : \A z \in seen : ~DLess(m, z)

\* Mutant: a sample at the cutoff itself is dropped.
WindowFilter_Strict(pairs, cutoff) == SelectSeq(pairs, LAMBDA s : s[1] > cutoff)

\* The window filter: the samples with ts >= cutoff, in order.
WindowFilter(pairs, cutoff) == SelectSeq(pairs, LAMBDA s : s[1] >= cutoff)

\* data[-n:] for n >= 1.
LastN(pairs, n) ==
    IF n >= Len(pairs) THEN pairs ELSE SubSeq(pairs, Len(pairs) - n + 1, Len(pairs))

\* Mutant: the fractional index is rounded up.
SampleIndex_RoundedUp(i, len, budget) == (i * len + budget - 1) \div budget

\* int(i * step) with step = len(filtered) / max_points (0-based index).
\* The float product truncates to floor(i * len / max_points) for every
\* len below 30, and for len 60 and 61 with max_points up to 5, which
\* covers the lengths of the model (60 samples with 22 points is a case
\* where the float product falls one index short).
SampleIndex(i, len, budget) == (i * len) \div budget

\* The loop for i in range(max_points), from i on.
RECURSIVE PickSamples(_, _, _)
PickSamples(filtered, i, budget) ==
    IF i >= budget THEN <<>>
    ELSE LET idx == SampleIndex(i, Len(filtered), budget)
         IN  (IF idx < Len(filtered) THEN <<filtered[idx + 1]>> ELSE <<>>)
             \o PickSamples(filtered, i + 1, budget)

\* Mutant: the last point is never appended.
IncludeLast_Never(result, filtered) == result

\* "Always include the last point"
IncludeLast(result, filtered) ==
    IF result # <<>> /\ filtered # <<>> /\ result[Len(result)] # filtered[Len(filtered)]
    THEN Append(result, filtered[Len(filtered)])
    ELSE result

\* Mutant: the list is never downsampled.
NeedsDownsampling_Never(filtered, budget) == FALSE

\* if len(filtered) > max_points
NeedsDownsampling(filtered, budget) == Len(filtered) > budget

\* Mutant: the extremes are those of the whole window.
TrackedSamples_RawWindow(down, picked, filtered) == filtered

\* The samples whose values the min/max tracking has seen before the last
\* point is considered: the picked ones when the downsampling block ran
\* (it resets data_min and data_max), else the filtered (or fallback) list.
TrackedSamples(down, picked, filtered) == IF down THEN picked ELSE filtered

\* A value of the model (units of 1/10000) in units of 1/2000000, in which
\* the products by 0.1 and by 0.15 and the multiples of the step are whole.
Exact(v) == 200 * v

Abs(x) == IF x < 0 THEN -x ELSE x

\* Mutant: a zero range is always replaced by 1.
ZeroRange_AlwaysOne(data_max) == Exact(10000)

\* data_range = abs(data_max) * 0.1 if data_max != 0 else 1
ZeroRange(data_max) == IF data_max # 0 THEN 20 * Abs(data_max) ELSE Exact(10000)

\* 10 ** math.floor(math.log10(data_range)) for data_range >= 1: the
\* greatest power of ten not above data_range, from the power p on.
RECURSIVE range_magnitude(_, _)
range_magnitude(data_range, p) ==
    IF 10 * p > data_range THEN p ELSE range_magnitude(data_range, 10 * p)

\* step = range_magnitude / 10, and 0.01 if that is below 0.01: the
\* magnitude of a range below 1 is at most 0.1.
NiceStep(data_range) ==
    IF data_range < Exact(10000) THEN Exact(100)
    ELSE range_magnitude(data_range, Exact(10000)) \div 10

\* math.floor(y / step) * step and math.ceil(y / step) * step.  The quotient
\* of the two doubles is rounded before floor or ceil sees it: when y is a
\* multiple of the step it may come out just beyond the whole number, as
\* (1.0 - 0.3) / 0.1 = 6.999999999999999 does, and the bound then lies one
\* step further out.  The decimal values of the model do not carry that
\* rounding, so beyond tells which of the two outcomes happens.
FloorTo(y, step, beyond) ==
    IF y % step = 0 /\ beyond THEN y - step ELSE (y \div step) * step
CeilTo(y, step, beyond) ==
    IF y % step = 0 /\ beyond THEN y + step ELSE -(((-y) \div step) * step)

\* The rounding outcomes of the two quotients of one range computation.
Roundings == BOOLEAN \X BOOLEAN

\* "Calculate nice Y-range from tracked min/max": <<y_min, y_max>> in units
\* of 1/2000000, for finite extremes (or none: data_min is still inf).
NiceRange(data_min, data_max, rounding) ==
    IF data_min = PosInf THEN <<0, Exact(1000000)>>
    ELSE
    LET diff == Exact(data_max.v - data_min.v)
        data_range == IF diff = 0 THEN ZeroRange(data_max.v) ELSE diff
        padding == (data_range * 3) \div 20
        lo == Exact(data_min.v) - padding
        hi == Exact(data_max.v) + padding
        step == NiceStep(data_range)
        y_min == IF data_range > 0 THEN FloorTo(lo, step, rounding[1]) ELSE lo
        y_max == IF data_range > 0 THEN CeilTo(hi, step, rounding[2]) ELSE hi
    IN  IF y_min = y_max THEN <<y_min - Exact(10000), y_max + Exact(10000)>>
        ELSE <<y_min, y_max>>

\* The locals of one call of process_data (budget >= 1): data is the
\* argument, windowed the list filtered as it stands before the downsampling
\* step, ret the returned list, data_min and data_max the extremes as the
\* passes track them, y_min and y_max the returned range.
ProcessFrame(pairs, p, budget, t, rounding) ==
    IF pairs = <<>>
    THEN [data |-> pairs, windowed |-> <<>>, fell_back |-> FALSE, downsampled |-> FALSE,
          ret |-> <<>>, data_min |-> PosInf, data_max |-> NegInf,
          y_min |-> 0, y_max |-> Exact(1000000)]
    ELSE
    LET cutoff == t - period_duration(p)
        inwin == WindowFilter(pairs, cutoff)
        windowed == IF inwin = <<>> THEN LastN(pairs, fallback_points(p)) ELSE inwin
        down == NeedsDownsampling(windowed, budget)
        picked == PickSamples(windowed, 0, budget)
        result == IncludeLast(picked, windowed)
        tracked == TrackedSamples(down, picked, windowed)
        min0 == TrackMin(tracked, 1, PosInf)
        max0 == TrackMax(tracked, 1, NegInf)
        last == windowed[Len(windowed)][2]
        appended == down /\ result # picked
        data_min == IF appended /\ DLess(last, min0) THEN last ELSE min0
        data_max == IF appended /\ DLess(max0, last) THEN last ELSE max0
        range == NiceRange(data_min, data_max, rounding)
    IN  [data |-> pairs, windowed |-> windowed, fell_back |-> inwin = <<>>,
         downsampled |-> down,
         ret |-> IF down THEN result ELSE windowed,
         data_min |-> data_min, data_max |-> data_max,
         y_min |-> range[1], y_max |-> range[2]]

process_data(pairs, p, budget, t) ==
    ProcessFrame(pairs, p, budget, t, <<FALSE, FALSE>>).ret

---------------------------------------------------------------------------
(* generate_x_labels *)

\* current starts as the integer start_ts and becomes a double with the
\* first current += interval.  A double between 2^30 and 2^31, where the
\* timestamps of the years 2004 to 2038 lie, is a multiple of 2^-22: a time
\* of the loop is s whole seconds and f units of 2^-22 second.
Grid == 2 ^ 22

Whole(s) == [s |-> s, f |-> 0]

\* duration / 10 as the sum current + interval sees it: the sum is rounded
\* to the nearest multiple of 2^-22 (current is one already), and a tenth
\* of a whole number never lies halfway between two of them.
Tenth(duration) ==
    LET units == (duration % 10) * Grid
    IN  [s |-> duration \div 10,
         f |-> (units \div 10) + (IF 2 * (units % 10) > 10 THEN 1 ELSE 0)]

\* The interval of the period tag.
Interval(p, duration) ==
    CASE p = "h" -> Whole(IF duration < 3600 THEN 600 ELSE 900)
      [] p = "D" -> Whole(2 * 3600)
      [] p = "W" -> Whole(24 * 3600)
      [] p = "M" -> Whole(5 * 24 * 3600)
      [] p = "Y" -> Whole(30 * 24 * 3600)
      [] OTHER -> Tenth(duration)

\* The strftime format of the period tag.
Format(p) ==
    CASE p = "W" -> "%a"
      [] p = "M" -> "%b %d"
      [] p = "Y" -> "%b"
      [] OTHER -> "%H:%M"

\* current += interval
Plus(a, b) ==
    IF a.f + b.f >= Grid THEN [s |-> a.s + b.s + 1, f |-> a.f + b.f - Grid]
    ELSE [s |-> a.s + b.s, f |-> a.f + b.f]

\* A position is 100 * n / d for a time n and whole seconds d:
\* ((current - start_ts) / duration) * 100, and the constants 50 and 100.
PosOf(current, start_ts, duration) ==
    [n |-> [s |-> current.s - start_ts, f |-> current.f], d |-> duration]
Pos50 == [n |-> Whole(1), d |-> 2]
Pos100 == [n |-> Whole(1), d |-> 1]

\* pos < 95, that is 20 * n < 19 * d.
Below95(pos) ==
    LET gap == 19 * pos.d - 20 * pos.n.s
    IN  gap >= 20 \/ (gap >= 1 /\ gap * Grid > 20 * pos.n.f)

\* Mutant: the end label is appended below position 50 only.
NeedsEndLabel_Below50(labels) ==
    /\ labels # <<>>
    /\ 2 * labels[Len(labels)].pos.n.s < labels[Len(labels)].pos.d

\* if labels and labels[-1]['pos'] < 95
NeedsEndLabel(labels) ==
    labels # <<>> /\ Below95(labels[Len(labels)].pos)

\* The text of a label: the time it formats and the format.
Text(time, fmt) == [at |-> time, fmt |-> fmt]

\* The locals of generate_x_labels before its loop, for a non-empty list.
LabelsEnter(pairs, p) ==
    LET start_ts == pairs[1][1]
        end_ts == pairs[Len(pairs)][1]
        duration == end_ts - start_ts
    IN  [start_ts |-> start_ts, end_ts |-> end_ts, duration |-> duration,
         interval |-> Interval(p, duration), fmt |-> Format(p),
         current |-> Whole(start_ts), labels |-> <<>>, ret |-> <<>>]

\* while current <= end_ts
LabelMore(loc) ==
    \/ loc.current.s < loc.end_ts
    \/ loc.current.s = loc.end_ts /\ loc.current.f = 0

\* One iteration of the loop.
LabelIteration(loc) ==
    LET pos == IF loc.duration > 0
               THEN PosOf(loc.current, loc.start_ts, loc.duration) ELSE Pos50
    IN  [loc EXCEPT !.labels = Append(@, [text |-> Text(loc.current, loc.fmt), pos |-> pos]),
                    !.current = Plus(@, loc.interval)]

\* "Make sure we have end label", and the return.
LabelReturn(loc) ==
    LET labels == IF NeedsEndLabel(loc.labels)
                  THEN Append(loc.labels,
                              [text |-> Text(Whole(loc.end_ts), loc.fmt), pos |-> Pos100])
                  ELSE loc.labels
    IN  [loc EXCEPT !.labels = labels, !.ret = labels]

---------------------------------------------------------------------------
(* Inputs *)

Periods == {"h", "D", "W", "M", "Y", "x"}

\* stepsMultiplier fields of the generated archives.
StepsSet == {0, 1, 16}

\* A lastUpdate inside the accepted range, and clocks shortly and long after.
LuOk == LastUpdateMin + 22163500
NowSoon == LuOk + 100
NowLate == LuOk + 40000000

Shape(steps, rows, pointer, mask) ==
    [steps |-> steps, rows |-> rows, pointer |-> pointer, mask |-> mask]

SeqsUpTo(S, n) == UNION {[1..k -> S] : k \in 1..n}

\* The generated archives: every size and resolution.
SelectionShapes == {Shape(s, r, 0, 0) : s \in StepsSet, r \in 1..MaxRows}

\* Header fields <<step, lastUpdate>> in and out of their accepted ranges.
Headers ==
    {<<step, LuOk>> : step \in {0, 1, 60, 86400, 86401}} \cup
    {<<60, lu>> : lu \in {1000300, 1577836799, 1577836800, 2000000000, 2000000001}}

\* The fabricated files of the specification's test list: a 5-row archive
\* with step 60, and archives of coverage 3600 s, 86400 s and 604800 s.
FiveRows(lu) == FileFields(60, 1, lu, <<Shape(1, 5, 0, 0)>>)
ThreeCoverages ==
    FileFields(3600, 1, LuOk, <<Shape(1, 1, 0, 0), Shape(24, 1, 0, 0), Shape(168, 1, 0, 0)>>)
OneHourArchive == FileFields(3600, 1, LuOk, <<Shape(1, 1, 0, 0)>>)

\* Lengths that cut a file at and just before the end of each field, the
\* empty file and the file followed by a trailing byte.
Cuts(fields) ==
    {0, TotalBytes(fields) + 1} \cup FieldEnds(fields) \cup
    {e - 1 : e \in FieldEnds(fields)}

---------------------------------------------------------------------------
(* main *)

DefaultMaxPoints == 500

NoFrame == [raised |-> FALSE, step |-> 0, last_update |-> 0, ds_count |-> 0,
            archive_data |-> <<>>, selected |-> 0, ret |-> None]
NoProc == [data |-> <<>>, windowed |-> <<>>, fell_back |-> FALSE, downsampled |-> FALSE,
           ret |-> <<>>, data_min |-> PosInf, data_max |-> NegInf,
           y_min |-> 0, y_max |-> 0]

\* main is entered with the file, the period tag and the clock given.
MainStart(fields, n, p, t) ==
    /\ rrd = Buffer(fields, n)
    /\ period = p
    /\ now = t
    /\ max_points = DefaultMaxPoints
    /\ pc = "parse"
    /\ calls = <<>>
    /\ data = None
    /\ frame = NoFrame
    /\ proc = NoProc

WholeFile(fields, p, t) == MainStart(fields, TotalBytes(fields), p, t)

\* Whole files of up to MaxArcs archives, for every period tag.
InitSelection ==
    \E step \in {60, 3600}, shapes \in SeqsUpTo(SelectionShapes, MaxArcs), p \in Periods :
        WholeFile(FileFields(step, 1, LuOk, shapes), p, NowSoon)

\* One archive with every write pointer and every pattern of non-finite slots.
InitRobin ==
    \E hd \in {<<h, 1>> : h \in Headers} \cup {<<<<60, LuOk>>, ds>> : ds \in 1..MaxDs},
       s \in StepsSet, r \in 0..MaxRows,
       ptr \in 0..(MaxRows + 1), m \in 0..3, t \in {NowSoon, NowLate} :
        WholeFile(FileFields(hd[1][1], hd[2], hd[1][2], <<Shape(s, r, ptr, m)>>), "D", t)

\* Files of several datasources and archives of different sizes.
InitDatasources ==
    \E ds \in 1..MaxDs,
       shapes \in SeqsUpTo({Shape(1, r, ptr, 0) : r \in 0..MaxRows, ptr \in {0, 1}}, MaxArcs) :
        WholeFile(FileFields(60, ds, LuOk, shapes), "D", NowSoon)

InitFixtures ==
    \/ \E lu \in {1000300, LuOk} : WholeFile(FiveRows(lu), "D", NowSoon)
    \/ \E p \in Periods : WholeFile(ThreeCoverages, p, NowSoon)
    \/ WholeFile(OneHourArchive, "Y", NowSoon)

\* Files cut short.
InitTruncated ==
    \E ds \in 1..MaxDs, shapes \in SeqsUpTo({Shape(1, r, 1, 0) : r \in 0..MaxRows}, MaxArcs) :
        LET fields == FileFields(60, ds, LuOk, shapes)
        IN  \E n \in Cuts(fields) : MainStart(fields, n, "D", NowSoon)

\* data = parse_rrd4j_file(rrd, period)
MainParse ==
    /\ pc = "parse"
    /\ frame' = ParseFrame(rrd, period, now)
    /\ data' = frame'.ret
    /\ calls' = Append(calls, "parse_rrd4j_file")
    /\ pc' = "parsed"
    /\ UNCHANGED <<rrd, period, now, max_points, proc>>

\* if not data: "Error: Could not parse rrd4j file", return 1
MainParseFailed ==
    /\ pc = "parsed"
    /\ ~Truthy(data)
    /\ pc' = "exit1_parse"
    /\ UNCHANGED <<rrd, period, now, max_points, calls, data, frame, proc>>

\* data, y_min, y_max = process_data(data, period, max_points=500), then
\* if not data: "Error: No data for period", return 1
MainProcess ==
    /\ pc = "parsed"
    /\ Truthy(data)
    /\ \E rounding \in Roundings :
          proc' = ProcessFrame(data.pairs, period, max_points, now, rounding)
    /\ data' = Some(proc'.ret)
    /\ calls' = Append(calls, "process_data")
    /\ pc' = IF proc'.ret = <<>> THEN "exit1_nodata" ELSE "render"
    /\ UNCHANGED <<rrd, period, now, max_points, frame>>

Init == InitSelection \/ InitRobin \/ InitDatasources \/ InitFixtures

Next == MainParse \/ MainParseFailed \/ MainProcess

Spec == Init /\ [][Next]_vars

SpecTruncated == InitTruncated /\ [][Next]_vars

---------------------------------------------------------------------------
(* Direct calls of parse_rrd4j_values_only on raw buffers *)

MaxSegs == 3
MaxSlack == 1

\* The j-th double (0-based) after the scan start: plausible values are all
\* different, of both signs; implausible ones are NaN, an infinity, zero and
\* the two ends 0.0001 and 10000 of the plausible interval.
RawValue(ok, j) ==
    IF ok THEN Fin(IF j % 2 = 0 THEN 10000 + j ELSE -(10000 + j))
    ELSE CASE j % 5 = 0 -> NaN
           [] j % 5 = 1 -> Fin(100000000)
           [] j % 5 = 2 -> Fin(0)
           [] j % 5 = 3 -> PosInf
           [] OTHER -> Fin(1)

\* The doubles of the segments, the first of them being the j-th double.
RECURSIVE RawValues(_, _)
RawValues(segs, j) ==
    IF segs = <<>> THEN <<>>
    ELSE [r \in 1..Head(segs).n |-> RawValue(Head(segs).ok, j + r - 1)]
         \o RawValues(Tail(segs), j + Head(segs).n)

\* Alternating runs of plausible doubles (of lengths around MinBlock) and of
\* implausible doubles, as segments [ok, n].
RECURSIVE Alternating(_, _)
Alternating(ok, k) ==
    LET lens == IF ok THEN {MinBlock - 1, MinBlock, MinBlock + 1} ELSE {1, 2}
    IN  IF k = 0 THEN {<<>>}
        ELSE {<<[ok |-> ok, n |-> n]>> \o rest :
                 n \in lens, rest \in Alternating(~ok, k - 1)}

\* Up to MaxSegs runs after 200 bytes of header, followed by up to MaxSlack
\* trailing bytes.
InitScan ==
    /\ \E k \in 1..MaxSegs, ok \in BOOLEAN, slack \in 0..MaxSlack :
          \E segs \in Alternating(ok, k) :
              LET vals == RawValues(segs, 0)
              IN  rrd = RawBuffer(vals, ScanStart + 8 * Len(vals) + slack)
    /\ period = "D"
    /\ now = NowSoon
    /\ max_points = DefaultMaxPoints
    /\ pc = "scan"
    /\ calls = <<>>
    /\ data = None
    /\ frame = ScanEnter
    /\ proc = NoProc

\* for i in range(200, len(data) - 8, 8): one iteration
ScanStep ==
    /\ pc = "scan"
    /\ ScanMore(rrd, frame)
    /\ frame' = ScanIteration(rrd, frame)
    /\ UNCHANGED <<rrd, period, now, max_points, pc, calls, data, proc>>

\* The loop is over: the last block, the longest block, the return value.
ScanFinish ==
    /\ pc = "scan"
    /\ ~ScanMore(rrd, frame)
    /\ frame' = ScanReturn(frame, now)
    /\ data' = frame'.ret
    /\ pc' = "scanned"
    /\ UNCHANGED <<rrd, period, now, max_points, calls, proc>>

NextScan == ScanStep \/ ScanFinish

SpecScan == InitScan /\ [][NextScan]_vars

---------------------------------------------------------------------------
(* Direct calls of process_data on sample lists *)

MaxSamples == 8
MaxBudget == 4

\* n samples spaced by spacing seconds from LuOk on: all of one value
\* (5.0, 0.0, -2.5 or 0.0003), rising, rising with the greatest value second,
\* or alternating.
SampleList(n, spacing, shape) ==
    [i \in 1..n |->
        <<LuOk + (i - 1) * spacing,
          Fin(CASE shape = "flat" -> 50000
                [] shape = "zero" -> 0
                [] shape = "neg" -> -25000
                [] shape = "tiny" -> 3
                [] shape = "ramp" -> 10000 * i
                [] shape = "peak" -> IF i = 2 THEN 90000 ELSE 10000 * i
                [] OTHER -> IF i % 2 = 0 THEN 70000 ELSE -30000)>>]

\* Lists of up to MaxSamples samples with budgets up to MaxBudget, and two
\* longer lists with the default budget as well: ten samples of 5.0, and 61
\* samples, one more than the fallback of the hour period keeps.
InitProcess ==
    /\ \/ /\ \E n \in 0..MaxSamples, spacing \in {0, 60},
                shape \in {"flat", "zero", "neg", "tiny", "ramp", "peak", "zigzag"} :
                 data = Some(SampleList(n, spacing, shape))
          /\ max_points \in 1..MaxBudget
       \/ /\ data \in {Some(SampleList(10, 60, "flat")), Some(SampleList(61, 60, "ramp"))}
          /\ max_points \in (1..MaxBudget) \cup {DefaultMaxPoints}
    /\ period \in Periods
    /\ now \in {LuOk + 3720, NowLate}
    /\ pc = "process"
    /\ calls = <<>>
    /\ rrd = RawBuffer(<<>>, 0)
    /\ frame = NoFrame
    /\ proc = NoProc

\* data, y_min, y_max = process_data(data, period, max_points)
ProcessCall ==
    /\ pc = "process"
    /\ \E rounding \in Roundings :
          proc' = ProcessFrame(data.pairs, period, max_points, now, rounding)
    /\ data' = Some(proc'.ret)
    /\ pc' = "processed"
    /\ UNCHANGED <<rrd, period, now, max_points, calls, frame>>

NextProcess == ProcessCall

SpecProcess == InitProcess /\ [][NextProcess]_vars

---------------------------------------------------------------------------
(* main from the parsed list on: process_data, then generate_x_labels *)

MaxLabels == 12

\* main holds the parser's list: up to MaxSamples samples 0, 1, 60, 600
\* seconds or a day apart, all of them older than every window or the
\* first of them 62 minutes old.
InitLabels ==
    /\ \E n \in 1..MaxSamples, spacing \in {0, 1, 60, 600, 86400} :
          data = Some(SampleList(n, spacing, "ramp"))
    /\ period \in Periods
    /\ now \in {LuOk + 3720, NowLate}
    /\ max_points = DefaultMaxPoints
    /\ pc = "parsed"
    /\ calls = <<"parse_rrd4j_file">>
    /\ rrd = RawBuffer(<<>>, 0)
    /\ frame = NoFrame
    /\ proc = NoProc

\* chart_data = generate_chart_data(data), then generate_x_labels(data,
\* period) is entered.
MainLabels ==
    /\ pc = "render"
    /\ frame' = LabelsEnter(data.pairs, period)
    /\ calls' = calls \o <<"generate_chart_data", "generate_x_labels">>
    /\ pc' = "labels"
    /\ UNCHANGED <<rrd, period, now, max_points, data, proc>>

\* One iteration of the loop of generate_x_labels; the model follows at
\* most MaxLabels of them.
LabelStep ==
    /\ pc = "labels"
    /\ LabelMore(frame)
    /\ Len(frame.labels) < MaxLabels
    /\ frame' = LabelIteration(frame)
    /\ UNCHANGED <<rrd, period, now, max_points, pc, calls, data, proc>>

\* The loop is over: the end label, and x_labels is returned to main.
LabelFinish ==
    /\ pc = "labels"
    /\ ~LabelMore(frame)
    /\ frame' = LabelReturn(frame)
    /\ pc' = "labelled"
    /\ UNCHANGED <<rrd, period, now, max_points, calls, data, proc>>

NextLabels == MainProcess \/ MainLabels \/ LabelStep \/ LabelFinish

SpecLabels == InitLabels /\ [][NextLabels]_vars

---------------------------------------------------------------------------
(* Properties of the pipeline and of parse_rrd4j_file *)

Parsed == pc # "parse"

\* The end of the layout the file's fields imply.
LayoutBytes(buf) ==
    LET ends == {off + buf.at[off].w : off \in DOMAIN buf.at}
    IN  CHOOSE e \in ends : \A f \in ends : f <= e

Timestamps(pairs) == [i \in 1..Len(pairs) |-> pairs[i][1]]

WholeBuffer(fields) == Buffer(fields, TotalBytes(fields))

\* C1: whenever main reports that extraction failed, the heuristic scanner
\* parse_rrd4j_values_only has been run on the file before.
C1_ScannerRunsBeforeFailure ==
    pc = "exit1_parse" =>
        \E i \in 1..Len(calls) : calls[i] = "parse_rrd4j_values_only"

\* C2: a buffer shorter than the layout its own count fields imply is never
\* parsed into a sample sequence: parse_rrd4j_file returns None.
C2_ShortBufferFails ==
    (Parsed /\ rrd.len < LayoutBytes(rrd)) => ~frame.ret.ok

\* C3 as stated: the 5-row file with step 60, stepsMultiplier 1 and header
\* lastUpdate 1000300 parses to the timestamps 1000060 .. 1000300.
C3_Original ==
    (Parsed /\ rrd = WholeBuffer(FiveRows(1000300))) =>
        /\ frame.ret.ok
        /\ Timestamps(frame.ret.pairs) = <<1000060, 1000120, 1000180, 1000240, 1000300>>

\* C3 amended: the 5-row file with step 60 and stepsMultiplier 1 parses to
\* the timestamps L-240, L-180, L-120, L-60, L, where L is the header's
\* lastUpdate when it lies in [1577836800, 2000000000] (1600000300 in the
\* file checked) and the current time otherwise (header 1000300).
C3_FiveRowTimestamps ==
    \A lu \in {1000300, LuOk} :
        (Parsed /\ rrd = WholeBuffer(FiveRows(lu))) =>
            LET L == IF lu >= 1577836800 /\ lu <= 2000000000 THEN lu ELSE now
            IN  /\ frame.ret.ok
                /\ Timestamps(frame.ret.pairs) =
                       <<L - 240, L - 180, L - 120, L - 60, L>>

C3_Witness ==
    /\ Parsed
    /\ rrd = WholeBuffer(FiveRows(LuOk))
    /\ Len(frame.ret.pairs) = 5
    /\ frame.ret.pairs[5][1] = 1600000300

\* C4: the timestamps of every returned sample sequence increase strictly,
\* each step a positive multiple of step * stepsMultiplier.
C4_StrictlyIncreasing ==
    (Parsed /\ frame.ret.ok) =>
        LET pairs == frame.ret.pairs
            S == frame.step * frame.archive_data[frame.selected].steps
        IN  \A i \in 1..(Len(pairs) - 1) :
                /\ pairs[i + 1][1] > pairs[i][1]
                /\ \E k \in 1..Len(frame.archive_data[frame.selected].values) :
                       pairs[i + 1][1] - pairs[i][1] = k * S

IsFinite(val) == val.cls = "fin"

\* C5: the returned pairs are exactly (lastUpdate - (N - i - 1) * S, values[i])
\* for the finite values[i] of the selected archive, in increasing i (here
\* i is 1-based, so the distance to the end is N - i); nothing non-finite is
\* returned, and None is returned when no value is finite.
C5_PairsOfFiniteValues ==
    (Parsed /\ ~frame.raised) =>
        LET sel == frame.archive_data[frame.selected]
            N == Len(sel.values)
            S == frame.step * sel.steps
            fin == {i \in 1..N : IsFinite(sel.values[i])}
            pairs == frame.ret.pairs
        IN  /\ frame.ret.ok <=> fin # {}
            /\ Len(pairs) = Cardinality(fin)
            /\ \A i \in fin :
                  pairs[Cardinality({j \in fin : j <= i})] =
                      <<frame.last_update - (N - i) * S, sel.values[i]>>
            /\ \A k \in 1..Len(pairs) : IsFinite(pairs[k][2])

C5_Witness ==
    /\ Parsed /\ ~frame.raised
    /\ LET sel == frame.archive_data[frame.selected]
           S == frame.step * sel.steps
       IN  /\ Len(sel.values) = 3
           /\ ~IsFinite(sel.values[2])
           /\ S > 0
           /\ Len(frame.ret.pairs) = 2
           /\ frame.ret.pairs[1][1] = frame.last_update - 2 * S
           /\ frame.ret.pairs[2][1] = frame.last_update

\* The r-th value (1-based) the file stores in the first datasource's robin
\* buffer of the archive whose definition starts at offset at.
Stored(at, r) ==
    rrd.at[at + 56 + 16 * frame.ds_count + 4 + 8 * (r - 1)].v

Count(seq, x) == Cardinality({i \in 1..Len(seq) : seq[i] = x})

\* C6: reordering is a pure rotation.  With write pointer p and n = rowCount,
\* if 0 < p < n the ordered values are stored[p:] followed by stored[:p], so
\* the slot just before the write pointer comes last; otherwise they are the
\* stored values unchanged.  The result has n values and is a permutation
\* of the stored ones.
C6_PureRotation ==
    (Parsed /\ ~frame.raised) =>
        \A a \in 1..Len(frame.archive_data) :
            LET arc == frame.archive_data[a]
                n == arc.rows
                p == arc.pointer
                stored == [r \in 1..n |-> Stored(arc.at, r)]
            IN  /\ Len(arc.values) = n
                /\ IF p > 0 /\ p < n
                   THEN /\ \A k \in 1..(n - p) : arc.values[k] = stored[p + k]
                        /\ \A k \in 1..p : arc.values[n - p + k] = stored[k]
                        /\ arc.values[n] = stored[p]
                   ELSE arc.values = stored
                /\ \A r \in 1..n : Count(arc.values, stored[r]) = Count(stored, stored[r])

C6_Witness ==
    /\ Parsed /\ ~frame.raised
    /\ \E a \in 1..Len(frame.archive_data) :
          LET arc == frame.archive_data[a]
          IN  /\ arc.rows = 3 /\ arc.pointer = 1
              /\ arc.values = <<Stored(arc.at, 2), Stored(arc.at, 3), Stored(arc.at, 1)>>
              /\ Stored(arc.at, 1) # Stored(arc.at, 2)

\* The duration of a period tag, as the specification lists it.
RequestedSeconds ==
    IF period = "h" THEN 3600
    ELSE IF period = "W" THEN 604800
    ELSE IF period = "M" THEN 2592000
    ELSE IF period = "Y" THEN 31536000
    ELSE 86400

\* rowCount * step * stepsMultiplier of the a-th parsed archive.
CoverageOf(a) ==
    frame.archive_data[a].rows * frame.step * frame.archive_data[a].steps

\* Coverage of at least 80% of the requested duration.
Reaches(a) == 5 * CoverageOf(a) >= 4 * RequestedSeconds

C8_FallbackGreatestCoverage ==
    Parsed =>
        /\ (rrd.len >= LayoutBytes(rrd) /\ rrd.at[52].v >= 1) =>
              /\ ~frame.raised
              /\ frame.selected \in 1..Len(frame.archive_data)
        /\ (~frame.raised /\ \A a \in 1..Len(frame.archive_data) : ~Reaches(a)) =>
              /\ \A a \in 1..Len(frame.archive_data) :
                    CoverageOf(a) <= CoverageOf(frame.selected)
              /\ \A a \in 1..(frame.selected - 1) :
                    CoverageOf(a) < CoverageOf(frame.selected)

C8_Witness ==
    /\ Parsed /\ ~frame.raised
    /\ Len(frame.archive_data) = 2
    /\ ~Reaches(1) /\ ~Reaches(2)
    /\ CoverageOf(1) = CoverageOf(2)
    /\ CoverageOf(1) > 0
    /\ frame.selected = 1

\* C17: a header step outside [1, 86400] is replaced by 60, a header
\* lastUpdate outside [1577836800, 2000000000] by the current time, values
\* inside are used unchanged, and every sample's timestamp is the normalised
\* lastUpdate minus a multiple of the normalised step times stepsMultiplier.
C17_HeaderNormalised ==
    (Parsed /\ ~frame.raised) =>
        LET hs == rrd.at[40].v
            hl == rrd.at[56].v
            S == IF hs >= 1 /\ hs <= 86400 THEN hs ELSE 60
            L == IF hl >= 1577836800 /\ hl <= 2000000000 THEN hl ELSE now
            sel == frame.archive_data[frame.selected]
            pairs == frame.ret.pairs
        IN  /\ frame.step = S
            /\ frame.last_update = L
            /\ \A k \in 1..Len(pairs) :
                  \E j \in 0..(Len(sel.values) - 1) :
                      pairs[k][1] = L - j * S * sel.steps
            /\ (pairs # <<>> /\ IsFinite(sel.values[Len(sel.values)])) =>
                  pairs[Len(pairs)][1] = L

C17_Witness ==
    /\ Parsed /\ ~frame.raised
    /\ rrd.at[40].v = 86401
    /\ frame.step = 60
    /\ frame.archive_data[frame.selected].steps = 16
    /\ Len(frame.ret.pairs) = 3
    /\ frame.ret.pairs[3][1] = rrd.at[56].v
    /\ frame.ret.pairs[1][1] = rrd.at[56].v - 2 * 60 * 16

\* The read cursor at which archive k starts in a file of ds datasources
\* whose archives hold the row counts the file stores.
RECURSIVE CursorOf(_, _, _)
CursorOf(buf, ds, k) ==
    IF k = 1 THEN 64 + 128 * ds
    ELSE LET before == CursorOf(buf, ds, k - 1)
             rows == buf.at[before + 52].v
         IN  before + 56 + 16 * ds + ds * (4 + 8 * rows)

\* C21: with dsCount >= 1 datasources, the read cursor for archive k starts
\* at 64 + 128*dsCount plus, for each earlier archive j,
\* 56 + 16*dsCount + dsCount*(4 + 8*rowCount_j), and the values extracted
\* for archive k are the slots of the first datasource's robin buffer of
\* archive k, rotated by its pointer: no slot of another datasource or of
\* another archive appears among them or shifts them.
C21_FirstDatasourceOnly ==
    (Parsed /\ ~frame.raised /\ rrd.at[48].v >= 1) =>
        LET ds == rrd.at[48].v
        IN  /\ frame.ds_count = ds
            /\ Len(frame.archive_data) = rrd.at[52].v
            /\ \A k \in 1..Len(frame.archive_data) :
                  LET arc == frame.archive_data[k]
                      cursor == CursorOf(rrd, ds, k)
                      first == cursor + 56 + 16 * ds + 4
                      n == rrd.at[cursor + 52].v
                      slot(i) == IF arc.pointer > 0 /\ arc.pointer < n
                                 THEN ((i - 1 + arc.pointer) % n) + 1 ELSE i
                  IN  /\ arc.at = cursor
                      /\ arc.rows = n
                      /\ arc.pointer = rrd.at[first - 4].v
                      /\ Len(arc.values) = n
                      /\ \A i \in 1..n :
                            LET pos == first + 8 * (slot(i) - 1)
                            IN  /\ pos \in DOMAIN rrd.at
                                /\ rrd.at[pos].k = "f64"
                                /\ arc.values[i] = rrd.at[pos].v
                                /\ arc.values[i].cls = "fin" =>
                                      arc.values[i] = Fin(1000 * k + 100 + slot(i))

\* Two datasources and two archives of different sizes: the second archive
\* is read behind the second datasource's buffer of the first.
C21_Witness ==
    /\ Parsed /\ ~frame.raised
    /\ frame.ds_count = 2
    /\ Len(frame.archive_data) = 2
    /\ frame.archive_data[1].rows = 3
    /\ frame.archive_data[2].rows = 2
    /\ frame.archive_data[2].pointer = 1
    /\ frame.archive_data[2].at = 64 + 256 + 56 + 32 + 2 * 28
    /\ frame.archive_data[2].values = <<Fin(2102), Fin(2101)>>

---------------------------------------------------------------------------
(* Properties of parse_rrd4j_values_only *)

\* Every complete 8-byte window of the buffer at the offsets 200, 208, ...
Windows(buf) ==
    LET n == IF buf.len >= ScanStart + 8 THEN (buf.len - ScanStart) \div 8 ELSE 0
    IN  [k \in 1..n |-> buf.at[ScanStart + 8 * (k - 1)].v]

Plausible(val) ==
    /\ val.cls = "fin"
    /\ \/ (1 < val.v /\ val.v < 100000000)
       \/ (1 < -val.v /\ -val.v < 100000000)

\* The maximal runs <<first, last>> of plausible values of a sequence.
Runs(w) ==
    {r \in (1..Len(w)) \X (1..Len(w)) :
        /\ r[1] <= r[2]
        /\ \A k \in r[1]..r[2] : Plausible(w[k])
        /\ r[1] = 1 \/ ~Plausible(w[r[1] - 1])
        /\ r[2] = Len(w) \/ ~Plausible(w[r[2] + 1])}

RunLen(r) == r[2] - r[1] + 1

\* The longest run of at least 30 values, the first one on ties; <<>> if none.
BestRun(w) ==
    LET good == {r \in Runs(w) : RunLen(r) >= 30}
    IN  IF good = {} THEN <<>>
        ELSE CHOOSE r \in good :
               \A q \in good : RunLen(q) < RunLen(r) \/ (RunLen(q) = RunLen(r) /\ r[1] <= q[1])

Values(pairs) == [i \in 1..Len(pairs) |-> pairs[i][2]]

\* C9: the scanner returns the values of the longest maximal run of
\* plausible doubles among the runs of at least 30, the first on ties, and
\* None when the buffer holds no run of at least 30.
C9_LongestRunOfBuffer ==
    pc = "scanned" =>
        LET w == Windows(rrd)
            best == BestRun(w)
        IN  IF best = <<>> THEN ~data.ok
            ELSE data.ok /\ Values(data.pairs) = SubSeq(w, best[1], best[2])

\* C18: the scanner examines every complete 8-byte window at the offsets
\* 200, 208, ... (offset + 8 <= length): the loop stops only at an offset
\* whose window does not fit, and a run of at least 30 plausible doubles
\* that ends with the last complete window is returned with its last value.
C18_EveryCompleteWindowExamined ==
    pc = "scanned" =>
        LET w == Windows(rrd)
            best == BestRun(w)
        IN  /\ frame.i + 8 > rrd.len
            /\ (best # <<>> /\ best[2] = Len(w)) =>
                  /\ data.ok
                  /\ data.pairs[Len(data.pairs)][2] = w[Len(w)]

---------------------------------------------------------------------------
(* Properties of process_data *)

\* C10: when more samples pass the window filter than the budget B allows,
\* process_data returns B or B + 1 samples, the last of them equal to the
\* last filtered sample.
C10_BudgetKeepsLastSample ==
    (pc = "processed" /\ Len(proc.windowed) > max_points) =>
        /\ Len(proc.ret) \in {max_points, max_points + 1}
        /\ proc.ret[Len(proc.ret)] = proc.windowed[Len(proc.windowed)]
        /\ data = Some(proc.ret)

C10_Witness ==
    /\ pc = "processed"
    /\ Len(proc.windowed) > max_points
    /\ max_points >= 2
    /\ Len(proc.ret) = max_points + 1
    /\ proc.ret[max_points] # proc.windowed[Len(proc.windowed)]
    /\ proc.ret[max_points + 1] = proc.windowed[Len(proc.windowed)]

\* C11 as stated: the sequence process_data returns never has more
\* elements than the point budget.
C11_Original ==
    pc = "processed" => Len(proc.ret) <= max_points

\* C11 amended: the sequence process_data returns never has more than
\* budget + 1 elements, and it has budget + 1 only when the list was
\* downsampled and its last sample appended to the budget picked ones.
C11_AtMostBudgetPlusOne ==
    pc = "processed" =>
        /\ Len(proc.ret) <= max_points + 1
        /\ Len(proc.ret) = max_points + 1 =>
              /\ proc.downsampled
              /\ proc.ret[max_points + 1] = proc.windowed[Len(proc.windowed)]
              /\ proc.ret[max_points] # proc.windowed[Len(proc.windowed)]

C11_Witness ==
    /\ pc = "processed"
    /\ Len(proc.data) = max_points + 3
    /\ Len(proc.windowed) = max_points + 3
    /\ Len(proc.ret) = max_points + 1

\* The values (in units of 1/10000) of a sample list.
ValueSet(pairs) == {pairs[i][2].v : i \in 1..Len(pairs)}

Least(S) == CHOOSE m \in S : \A z \in S : m <= z
Greatest(S) == CHOOSE m \in S : \A z \in S : z <= m

C13_EqualValuesStrictRange ==
    (pc = "processed" /\ proc.ret # <<>>) =>
        \A v \in ValueSet(proc.ret) :
            ValueSet(proc.ret) = {v} =>
                LET span == IF v = 0 THEN 2000000 ELSE 20 * Abs(v)
                    pad == (3 * span) \div 20
                    step == NiceStep(span)
                IN  /\ proc.y_min < Exact(v) /\ Exact(v) < proc.y_max
                    /\ proc.y_min <= Exact(v) - pad
                    /\ proc.y_max >= Exact(v) + pad
                    /\ Exact(v) - pad - proc.y_min <= step
                    /\ proc.y_max - Exact(v) - pad <= step
                    /\ proc.y_min % step = 0 /\ proc.y_max % step = 0
                    /\ (v = 50000 /\ Len(proc.ret) = 10) =>
                          <<proc.y_min, proc.y_max>> = <<9840000, 10160000>>

C13_Witness ==
    /\ pc = "processed"
    /\ Len(proc.data) = 10
    /\ Len(proc.ret) = 10
    /\ \A k \in 1..10 : proc.ret[k][2] = Fin(50000)
    /\ proc.y_min = 9840000
    /\ proc.y_max = 10160000

\* The indices of the samples of the input inside the requested window.
InWindow(pairs) ==
    {i \in 1..Len(pairs) : pairs[i][1] >= now - RequestedSeconds}

\* The number of samples the fallback keeps, as the specification lists it.
FallbackCount ==
    IF period = "h" THEN 60
    ELSE IF period = "W" THEN 2016
    ELSE IF period = "M" THEN 4320
    ELSE IF period = "Y" THEN 8760
    ELSE 1440

\* C16: the window filter keeps exactly the samples with timestamp >=
\* now - duration(period), in order; when none of a non-empty input passes,
\* the last K input samples are used instead (K as FallbackCount), so a
\* non-empty input always gives a non-empty output.
C16_WindowOrFallback ==
    (pc = "processed" /\ proc.data # <<>>) =>
        LET input == proc.data
            keep == InWindow(input)
            first == IF Len(input) > FallbackCount
                     THEN Len(input) - FallbackCount + 1 ELSE 1
        IN  /\ proc.fell_back <=> keep = {}
            /\ keep # {} =>
                  /\ Len(proc.windowed) = Cardinality(keep)
                  /\ \A i \in keep :
                        proc.windowed[Cardinality({j \in keep : j <= i})] = input[i]
            /\ keep = {} => proc.windowed = SubSeq(input, first, Len(input))
            /\ proc.windowed # <<>>
            /\ proc.ret # <<>>

C16_Witness ==
    /\ pc = "processed"
    /\ period = "h"
    /\ Len(proc.data) = 61
    /\ InWindow(proc.data) = {}
    /\ proc.fell_back
    /\ Len(proc.windowed) = 60
    /\ proc.windowed[1] = proc.data[2]
    /\ Len(proc.ret) = 60

\* a, from its i-th element on, is a subsequence of b from its j-th on.
RECURSIVE Embeds(_, _, _, _)
Embeds(a, i, b, j) ==
    IF i > Len(a) THEN TRUE
    ELSE IF j > Len(b) THEN FALSE
    ELSE IF a[i] = b[j] THEN Embeds(a, i + 1, b, j + 1)
    ELSE Embeds(a, i, b, j + 1)

\* C20: the output of process_data is a subsequence of its input; when the
\* list is downsampled (n > B >= 1 samples) the picked 0-based indices
\* floor(i * n / B), i = 0..B-1, start at 0, increase strictly and stay
\* below the last index n - 1, the i-th output is the sample at the i-th
\* index, and the last sample, when appended, comes after all of them.
C20_OrderPreserved ==
    pc = "processed" =>
        /\ Embeds(proc.ret, 1, proc.data, 1)
        /\ proc.downsampled =>
              LET n == Len(proc.windowed)
                  B == max_points
                  idx == [i \in 0..(B - 1) |-> (i * n) \div B]
              IN  /\ n > B
                  /\ idx[0] = 0
                  /\ \A i \in 0..(B - 2) : idx[i] < idx[i + 1]
                  /\ \A i \in 0..(B - 1) : idx[i] < n - 1
                  /\ \A i \in 0..(B - 1) : proc.ret[i + 1] = proc.windowed[idx[i] + 1]
                  /\ Len(proc.ret) \in {B, B + 1}
                  /\ Len(proc.ret) = B + 1 => proc.ret[B + 1] = proc.windowed[n]

C20_Witness ==
    /\ pc = "processed"
    /\ proc.downsampled
    /\ max_points = 3
    /\ Len(proc.windowed) = 8
    /\ proc.ret = <<proc.windowed[1], proc.windowed[3], proc.windowed[6], proc.windowed[8]>>
    /\ proc.windowed[6] # proc.windowed[8]

---------------------------------------------------------------------------
(* Properties of generate_x_labels *)

InRange(pos) ==
    /\ pos.n.s >= 0
    /\ pos.n.s < pos.d \/ (pos.n.s = pos.d /\ pos.n.f = 0)

\* Ten times the interval of the period tag, in whole seconds.
TenIntervals ==
    CASE period = "h" -> IF frame.duration < 3600 THEN 6000 ELSE 9000
      [] period = "D" -> 72000
      [] period = "W" -> 864000
      [] period = "M" -> 4320000
      [] period = "Y" -> 25920000
      [] OTHER -> frame.duration

\* The label formats the time start_ts + k * interval.
AtTick(label, k) ==
    /\ label.text.at.s - frame.start_ts = (k * TenIntervals) \div 10
    /\ 10 * label.text.at.f = ((k * TenIntervals) % 10) * Grid

\* C15: every label has a position in [0, 100]; tick k sits at
\* start + k * interval for every k with that time <= end; one extra label
\* at position 100 follows exactly when the last tick's position is below
\* 95; a week series of exactly 7 days has 8 ticks and no extra label.
C15_TicksAndEndLabel ==
    pc = "labelled" =>
        LET ret == frame.ret
            K == (10 * frame.duration) \div TenIntervals + 1
        IN  /\ \A i \in 1..Len(ret) : InRange(ret[i].pos)
            /\ Len(ret) \in {K, K + 1}
            /\ \A k \in 0..(K - 1) : AtTick(ret[k + 1], k)
            /\ Len(ret) = K + 1 <=> Below95(ret[K].pos)
            /\ Len(ret) = K + 1 => ret[K + 1].pos = Pos100
            /\ (period = "W" /\ frame.duration = 604800) =>
                  /\ Len(ret) = 8
                  /\ ret[8].pos = [n |-> Whole(604800), d |-> 604800]

\* C19: generate_x_labels terminates for every non-empty list and every
\* tag: whenever its loop is to run once more (current <= end_ts), the
\* interval the iteration adds to current is positive, so current passes
\* end_ts after finitely many iterations.
C19_LoopAdvances ==
    (pc = "labels" /\ LabelMore(frame)) =>
        frame.interval.s > 0 \/ frame.interval.f > 0

=============================================================================
